---- MODULE Spec2Model ----
(***************************************************************************)
(* Model of IGParserApp.py: the identifier parser, the caption entity      *)
(* extractors, the row normaliser, the virality calculator, the ranking    *)
(* step and the Run-button / worker-thread control flow of IGParserGUI.     *)
(*                                                                         *)
(* Python strings are sequences of one-character strings.  Python values   *)
(* of mixed type (None, int, str, bool, list, object) are records          *)
(* [t, i, s]: t the type tag, i the integer payload, s the text payload.   *)
(***************************************************************************)
EXTENDS Integers, Sequences, FiniteSets, TLC

VARIABLES
    value, target_username, parsed,
    text, hashtags, mentions, extracted,
    media, row, edits, normalized,
    df, followers, df_metrics, df_sorted, stage,
    run_btn, pc, mode, trace, written

vars == << value, target_username, parsed,
           text, hashtags, mentions, extracted,
           media, row, edits, normalized,
           df, followers, df_metrics, df_sorted, stage,
           run_btn, pc, mode, trace, written >>

parseVars == << value, target_username, parsed >>
textVars  == << text, hashtags, mentions, extracted >>
rowVars   == << media, row, edits, normalized >>
virVars   == << df, followers, df_metrics, df_sorted, stage >>
guiVars   == << run_btn, pc, mode, trace, written >>

(***************************************************************************)
(* Bounds of the model.                                                    *)
(***************************************************************************)
MaxChunks  == 4
MaxTextLen == 6
MaxEdits   == 2
MaxRows    == 3
MaxWorkers == 2

(***************************************************************************)
(* Python values.                                                          *)
(***************************************************************************)
None      == [t |-> "none", i |-> 0, s |-> << >>]
IntV(n)   == [t |-> "int", i |-> n, s |-> << >>]
StrV(cs)  == [t |-> "str", i |-> 0, s |-> cs]
BoolV(b)  == [t |-> "bool", i |-> IF b THEN 1 ELSE 0, s |-> << >>]
ListV(n)  == [t |-> "list", i |-> n, s |-> << >>]
TupleV(n) == [t |-> "tuple", i |-> n, s |-> << >>]
DateTime(k) == [t |-> "datetime", i |-> k, s |-> << >>]
Obj(k)    == [t |-> "obj", i |-> k, s |-> << >>]
NaN       == [t |-> "nan", i |-> 0, s |-> << >>]

\* bool(x): the truth value Python's `or`, `and`, `if` and `not` give x.
Truthy(x) ==
    CASE x.t = "none" -> FALSE
      [] x.t = "nan" -> TRUE
      [] x.t \in {"int", "bool", "list", "tuple"} -> x.i # 0
      [] x.t = "str" -> x.s # << >>
      [] OTHER -> TRUE

\* a or b
Or(a, b) == IF Truthy(a) THEN a ELSE b

(***************************************************************************)
(* Characters.                                                             *)
(***************************************************************************)
\* The ASCII characters the model uses, in ascending code point order.
AsciiOrder ==
    << "\t", "\n", "\r", " ", "#", ",", "-", ".", "/",
       "0", "1", "2", "3", "4", "5", "6", "7", "8", "9", ":", "@",
       "A", "B", "C", "D", "E", "F", "G", "H", "I", "J", "K", "L", "M",
       "N", "O", "P", "Q", "R", "S", "T", "U", "V", "W", "X", "Y", "Z", "_",
       "a", "b", "c", "d", "e", "f", "g", "h", "i", "j", "k", "l", "m",
       "n", "o", "p", "q", "r", "s", "t", "u", "v", "w", "x", "y", "z" >>

\* ord(c), up to an order-preserving renumbering.
Ord(c) == CHOOSE k \in 1..Len(AsciiOrder) : AsciiOrder[k] = c

Digits  == {"0", "1", "2", "3", "4", "5", "6", "7", "8", "9"}
Letters == {"A", "B", "C", "D", "E", "F", "G", "H", "I", "J", "K", "L", "M",
            "N", "O", "P", "Q", "R", "S", "T", "U", "V", "W", "X", "Y", "Z",
            "a", "b", "c", "d", "e", "f", "g", "h", "i", "j", "k", "l", "m",
            "n", "o", "p", "q", "r", "s", "t", "u", "v", "w", "x", "y", "z"}

\* [A-Za-z0-9_.]
HandleChars == Letters \cup Digits \cup {"_", "."}
\* \w
WordChars == Letters \cup Digits \cup {"_"}
\* the characters str.strip() removes
Whitespace == {" ", "\t", "\n", "\r"}

StartsWith(s, p) == Len(s) >= Len(p) /\ SubSeq(s, 1, Len(p)) = p
Drop(s, n) == SubSeq(s, n + 1, Len(s))

\* Length of the longest run of characters of class cls that starts at s[k].
RECURSIVE Run(_, _, _)
Run(cls, s, k) ==
    IF k <= Len(s) /\ s[k] \in cls THEN 1 + Run(cls, s, k + 1) ELSE 0

\* str.lstrip(chars)
RECURSIVE lstrip(_, _)
lstrip(s, chars) ==
    IF s # << >> /\ s[1] \in chars THEN lstrip(Drop(s, 1), chars) ELSE s

\* str.rstrip(chars)
RECURSIVE rstrip(_, _)
rstrip(s, chars) ==
    IF s # << >> /\ s[Len(s)] \in chars
    THEN rstrip(SubSeq(s, 1, Len(s) - 1), chars)
    ELSE s

\* str.strip()
strip(s) == rstrip(lstrip(s, Whitespace), Whitespace)

(***************************************************************************)
(* Identifier parser.                                                      *)
(***************************************************************************)
HttpLit  == << "h", "t", "t", "p" >>
SchemeSep == << ":", "/", "/" >>
WwwLit   == << "w", "w", "w", "." >>
HostLit  == << "i", "n", "s", "t", "a", "g", "r", "a", "m", ".", "c", "o", "m", "/" >>

\* The tail instagram\.com/([A-Za-z0-9_.]+)/? of PROFILE_RE matched at the
\* start of s: the captured group, or << >> when it does not match (the
\* group is never empty in a match).
MatchHost(s) ==
    IF StartsWith(s, HostLit)
    THEN SubSeq(s, Len(HostLit) + 1, Len(HostLit) + Run(HandleChars, s, Len(HostLit) + 1))
    ELSE << >>

\* (?:www\.)? followed by the tail: the group is tried first, then skipped.
MatchWww(s) ==
    IF StartsWith(s, WwwLit) /\ MatchHost(Drop(s, Len(WwwLit))) # << >>
    THEN MatchHost(Drop(s, Len(WwwLit)))
    ELSE MatchHost(s)

\* What https?:// leaves of s, or s when the scheme does not match.
AfterScheme(s) ==
    IF ~StartsWith(s, HttpLit) THEN s
    ELSE LET r  == Drop(s, Len(HttpLit))
             r2 == IF StartsWith(r, << "s" >>) /\ StartsWith(Drop(r, 1), SchemeSep)
                   THEN Drop(r, 1) ELSE r
         IN  IF StartsWith(r2, SchemeSep) THEN Drop(r2, Len(SchemeSep)) ELSE s

\* PROFILE_RE.match(s).group(1), or << >> when PROFILE_RE.match(s) is None.
PROFILE_RE_match(s) ==
    IF MatchWww(AfterScheme(s)) # << >> THEN MatchWww(AfterScheme(s)) ELSE MatchWww(s)

\* value.strip().lstrip("@") with one leading "@" at most removed.
StripOneAt(s) == IF s # << >> /\ s[1] = "@" THEN Drop(s, 1) ELSE s

\* value.strip().lstrip("@")
StripAt(s) == lstrip(s, {"@"})

parse_username(v) ==
    IF PROFILE_RE_match(strip(v)) # << >>
    THEN PROFILE_RE_match(strip(v))
    ELSE StripAt(strip(v))

(***************************************************************************)
(* Text entity extractor.                                                  *)
(***************************************************************************)
\* re.findall(marker + "([cls]+)", s) scanning from position k.
RECURSIVE findall(_, _, _, _)
findall(marker, cls, s, k) ==
    IF k > Len(s) THEN << >>
    ELSE IF s[k] = marker /\ Run(cls, s, k + 1) > 0
         THEN << SubSeq(s, k + 1, k + Run(cls, s, k + 1)) >>
              \o findall(marker, cls, s, k + 1 + Run(cls, s, k + 1))
         ELSE findall(marker, cls, s, k + 1)

\* a < b for Python strings: lexicographic by code point.
RECURSIVE StrLess(_, _)
StrLess(a, b) ==
    IF b = << >> THEN FALSE
    ELSE IF a = << >> THEN TRUE
    ELSE IF a[1] = b[1] THEN StrLess(Drop(a, 1), Drop(b, 1))
    ELSE Ord(a[1]) < Ord(b[1])

SeqToSet(q) == {q[k] : k \in 1..Len(q)}

\* sorted(S) for a set S of strings.
RECURSIVE sorted(_)
sorted(S) ==
    IF S = {} THEN << >>
    ELSE LET x == CHOOSE y \in S : \A z \in S : y = z \/ StrLess(y, z)
         IN  << x >> \o sorted(S \ {x})

\* sorted(list) without the set(): duplicates kept.
RECURSIVE SortedList(_)
SortedList(q) ==
    IF q = << >> THEN << >>
    ELSE LET k == CHOOSE a \in 1..Len(q) : \A b \in 1..Len(q) : ~StrLess(q[b], q[a])
         IN  << q[k] >> \o SortedList(SubSeq(q, 1, k - 1) \o SubSeq(q, k + 1, Len(q)))

\* extract_hashtags without the set(): sorted(re.findall(...)).
extract_hashtags_nodedup(x) ==
    IF ~Truthy(x) THEN << >>
    ELSE SortedList(findall("#", WordChars, x.s, 1))

extract_hashtags(x) ==
    IF ~Truthy(x) THEN << >>
    ELSE sorted(SeqToSet(findall("#", WordChars, x.s, 1)))

extract_mentions(x) ==
    IF ~Truthy(x) THEN << >>
    ELSE sorted(SeqToSet(findall("@", HandleChars, x.s, 1)))

(***************************************************************************)
(* Row normaliser.                                                         *)
(***************************************************************************)
\* getattr(obj, name, None) for a post object: a function from the names of
\* the attributes it exposes to their values.
get(obj, name) == IF name \in DOMAIN obj THEN obj[name] ELSE None

\* datetime.isoformat() of the datetime objects of the model.
isoformat(x) ==
    StrV(<< "2", "0", "2", "4", "-", "0", "1", "-", "0", IF x.i = 1 THEN "1" ELSE "2",
            "T", "0", "0", ":", "0", "0", ":", "0", "0" >>)

\* The attributes of the location objects of the model.
NoAttrs == [a \in {} |-> None]
LocationObjects ==
    << [name |-> StrV(<< "P", "a", "r", "i", "s" >>), slug |-> StrV(<< "p", "a", "r", "i", "s" >>)],
       [name |-> StrV(<< >>), slug |-> StrV(<< "r", "o", "m", "e" >>)],
       NoAttrs >>

\* getattr(loc, name, None) for the value of the location attribute.
getattr_loc(loc, name) ==
    IF loc.t = "obj" THEN get(LocationObjects[loc.i], name) ELSE None

\* sep.join(q)
RECURSIVE join(_, _)
join(sep, q) ==
    IF q = << >> THEN << >>
    ELSE IF Len(q) = 1 THEN q[1]
    ELSE q[1] \o sep \o join(sep, Tail(q))

CommaSpace == << ",", " " >>
PostUrlPrefix == HttpLit \o << "s" >> \o SchemeSep \o WwwLit \o HostLit \o << "p", "/" >>

\* f"https://www.instagram.com/p/{code}/" if code else None
post_url(code) == IF Truthy(code) THEN StrV(PostUrlPrefix \o code.s \o << "/" >>) ELSE None

\* taken_at.isoformat() if hasattr(taken_at, "isoformat") else taken_at
taken_at_iso(taken_at) == IF taken_at.t = "datetime" THEN isoformat(taken_at) ELSE taken_at

location_name(loc) ==
    IF Truthy(loc) THEN Or(getattr_loc(loc, "name"), getattr_loc(loc, "slug")) ELSE None

\* view_count taken from play_count only when the view counter is None.
view_count_if_none(obj) ==
    IF get(obj, "view_count") # None THEN get(obj, "view_count") ELSE get(obj, "play_count")

\* get(m, "view_count", None) or get(m, "play_count", None)
view_count(obj) == Or(get(obj, "view_count"), get(obj, "play_count"))

\* The dict literal d of media_to_row.
base_row(obj) ==
    [ id |-> get(obj, "id"),
      pk |-> get(obj, "pk"),
      shortcode |-> get(obj, "code"),
      url |-> post_url(get(obj, "code")),
      taken_at |-> taken_at_iso(get(obj, "taken_at")),
      media_type |-> get(obj, "media_type"),
      product_type |-> get(obj, "product_type"),
      like_count |-> get(obj, "like_count"),
      comment_count |-> get(obj, "comment_count"),
      view_count |-> view_count(obj),
      play_count |-> get(obj, "play_count"),
      caption |-> get(obj, "caption_text"),
      hashtags |-> StrV(join(CommaSpace, extract_hashtags(get(obj, "caption_text")))),
      mentions |-> StrV(join(CommaSpace, extract_mentions(get(obj, "caption_text")))),
      duration_sec |-> get(obj, "video_duration"),
      width |-> Or(get(obj, "thumbnail_width"), get(obj, "width")),
      height |-> Or(get(obj, "thumbnail_height"), get(obj, "height")),
      location |-> location_name(get(obj, "location")),
      is_paid_partnership |-> get(obj, "is_paid_partnership"),
      is_comments_disabled |-> get(obj, "commenting_disabled_for_viewer"),
      thumbnail_url |-> get(obj, "thumbnail_url"),
      video_url |-> get(obj, "video_url") ]

\* carousel_count without the isinstance(resources, list) test.
carousel_count_any_sequence(obj) ==
    IF Truthy(get(obj, "resources")) THEN IntV(get(obj, "resources").i) ELSE None

\* The value d["carousel_count"] is given.
carousel_count(obj) ==
    IF Truthy(get(obj, "resources")) /\ get(obj, "resources").t = "list"
    THEN IntV(get(obj, "resources").i)
    ELSE None

\* media_to_row with the else branch of the carousel_count test left out.
media_to_row_no_else(obj) ==
    IF carousel_count(obj) # None
    THEN base_row(obj) @@ ("carousel_count" :> carousel_count(obj))
    ELSE base_row(obj)

media_to_row(obj) == base_row(obj) @@ ("carousel_count" :> carousel_count(obj))

(***************************************************************************)
(* Virality calculator.  A table is [cols, rows]: the set of its column    *)
(* names and the sequence of its rows; a row's "index" field is its label   *)
(* in the pandas index.  A float is num/den, or NaN.                       *)
(***************************************************************************)
FloatV(n, dn) == [t |-> "float", num |-> n, den |-> dn]

FloatEq(a, b)   == a.t = "float" /\ b.t = "float" /\ a.num * b.den = b.num * a.den
FloatLess(a, b) == a.t = "float" /\ b.t = "float" /\ a.num * b.den < b.num * a.den

DigitOrder == << "0", "1", "2", "3", "4", "5", "6", "7", "8", "9" >>
DigitVal(c) == (CHOOSE k \in 1..10 : DigitOrder[k] = c) - 1

\* int(cs) for a string of decimal digits.
RECURSIVE ParseDigits(_)
ParseDigits(cs) ==
    IF cs = << >> THEN 0
    ELSE 10 * ParseDigits(SubSeq(cs, 1, Len(cs) - 1)) + DigitVal(cs[Len(cs)])

\* pd.to_numeric(x, errors="coerce") for one cell.
to_numeric(x) ==
    CASE x.t \in {"int", "bool"} -> FloatV(x.i, 1)
      [] x.t = "float" -> x
      [] x.t = "str" /\ x.s # << >> /\ (\A k \in 1..Len(x.s) : x.s[k] \in Digits) ->
             FloatV(ParseDigits(x.s), 1)
      [] OTHER -> NaN

\* pd.to_numeric(df.get(name), errors="coerce") at row r.
numeric_column(table, name, r) ==
    IF name \in table.cols THEN to_numeric(r[name]) ELSE NaN

\* x / followers
Div(x, f) == IF x.t = "float" THEN FloatV(x.num, x.den * f) ELSE NaN

\* x + y
Add(x, y) ==
    IF x.t = "float" /\ y.t = "float"
    THEN FloatV(x.num * y.den + y.num * x.den, x.den * y.den)
    ELSE NaN

MetricCols ==
    { "followers_at_scrape", "views_per_follower", "likes_per_follower",
      "comments_per_follower", "er_per_follower" }

\* The test of line 90 with the comparison left out: not followers.
no_follower_data_falsy(f) == ~Truthy(f)

\* not followers or followers <= 0
no_follower_data(f) == ~Truthy(f) \/ f.i <= 0

\* The engagement ratio from the likes alone.
er_likes_only(lc, cc, f) == Div(lc, f)

\* (lc + cc) / followers
er_per_follower(lc, cc, f) == Div(Add(lc, cc), f)

\* The row r of the table with the metric columns set.
metrics_row(table, r, f) ==
    IF no_follower_data(f)
    THEN [ followers_at_scrape |-> NaN,
           views_per_follower |-> NaN,
           likes_per_follower |-> NaN,
           comments_per_follower |-> NaN,
           er_per_follower |-> NaN ] @@ r
    ELSE [ followers_at_scrape |-> f,
           views_per_follower |-> Div(numeric_column(table, "view_count", r), f.i),
           likes_per_follower |-> Div(numeric_column(table, "like_count", r), f.i),
           comments_per_follower |-> Div(numeric_column(table, "comment_count", r), f.i),
           er_per_follower |->
               er_per_follower(numeric_column(table, "like_count", r),
                               numeric_column(table, "comment_count", r), f.i) ] @@ r

compute_virality(table, f) ==
    [ cols |-> table.cols \cup MetricCols,
      rows |-> [k \in 1..Len(table.rows) |-> metrics_row(table, table.rows[k], f)] ]

(***************************************************************************)
(* Ranking: df.sort_values(by=sort_by, ascending=ascending).  pandas       *)
(* gives every key column integer codes (NaN last) and sorts the rows by   *)
(* the code tuples with the stable numpy.lexsort.                          *)
(***************************************************************************)
ColumnValues(rows, col) == { rows[k][col] : k \in 1..Len(rows) } \ {NaN}

\* The code of value x in an ascending key column.
code_ascending(rows, col, x) ==
    IF x = NaN THEN Cardinality(ColumnValues(rows, col))
    ELSE Cardinality({ y \in ColumnValues(rows, col) : FloatLess(y, x) })

\* The code of value x in a descending key column (ascending=False).
code_descending(rows, col, x) ==
    IF x = NaN THEN Cardinality(ColumnValues(rows, col))
    ELSE Cardinality(ColumnValues(rows, col))
         - Cardinality({ y \in ColumnValues(rows, col) : FloatLess(y, x) }) - 1

\* The code tuple of row r under the key columns by.
sort_codes(rows, by, r) == [k \in 1..Len(by) |-> code_descending(rows, by[k], r[by[k]])]

\* a <= b for code tuples of the same length, lexicographically.
RECURSIVE CodesLeq(_, _)
CodesLeq(a, b) ==
    IF a = << >> THEN TRUE
    ELSE IF a[1] # b[1] THEN a[1] < b[1]
    ELSE CodesLeq(Tail(a), Tail(b))

\* r put into the sorted sequence q behind every row whose codes are <= its own.
RECURSIVE InsertStable(_, _, _, _)
InsertStable(rows, by, q, r) ==
    IF q = << >> THEN << r >>
    ELSE IF CodesLeq(sort_codes(rows, by, q[1]), sort_codes(rows, by, r))
         THEN << q[1] >> \o InsertStable(rows, by, Tail(q), r)
         ELSE << r >> \o q

\* The first n rows, stably sorted by their code tuples.
RECURSIVE lexsort(_, _, _)
lexsort(rows, by, n) ==
    IF n = 0 THEN << >>
    ELSE InsertStable(rows, by, lexsort(rows, by, n - 1), rows[n])

\* The key columns of lines 267-271.
sort_cols(table) ==
    (IF "views_per_follower" \in table.cols THEN << "views_per_follower" >> ELSE << >>)
    \o (IF "er_per_follower" \in table.cols THEN << "er_per_follower" >> ELSE << >>)

\* df_sorted of lines 266-279.
ranked_view(table) ==
    IF sort_cols(table) # << >>
    THEN [ cols |-> table.cols,
           rows |-> lexsort(table.rows, sort_cols(table), Len(table.rows)) ]
    ELSE table

(***************************************************************************)
(* Idle values of the variables a specification does not use.              *)
(***************************************************************************)
ParseIdle == value = << >> /\ target_username = << >> /\ parsed = FALSE
TextIdle  == text = None /\ hashtags = << >> /\ mentions = << >> /\ extracted = FALSE
RowIdle   == media = NoAttrs /\ row = NoAttrs /\ edits = 0 /\ normalized = FALSE
EmptyTable == [cols |-> {}, rows |-> << >>]
VirIdle   ==
    /\ df = EmptyTable /\ followers = None /\ df_metrics = EmptyTable
    /\ df_sorted = EmptyTable /\ stage = "off"

(***************************************************************************)
(* SpecParse: parse_username applied to one input string.                  *)
(***************************************************************************)
\* The pieces input strings are put together from.
Chunks ==
    { << " " >>, << "@" >>, << "a" >>, << "." >>, << "/" >>,
      HttpLit \o SchemeSep, HttpLit \o << "s" >> \o SchemeSep, WwwLit, HostLit }

RECURSIVE Concats(_)
Concats(n) ==
    IF n = 0 THEN { << >> }
    ELSE LET P == Concats(n - 1) IN P \cup { p \o c : p \in P, c \in Chunks }

ParseInit ==
    /\ value \in Concats(MaxChunks)
    /\ target_username = << >>
    /\ parsed = FALSE

\* target_username = parse_username(user_input)
Parse ==
    /\ ~parsed
    /\ target_username' = parse_username(value)
    /\ parsed' = TRUE
    /\ UNCHANGED << value, textVars, rowVars, virVars, guiVars >>

(***************************************************************************)
(* SpecText: extract_hashtags and extract_mentions applied to one caption. *)
(***************************************************************************)
TextChars == {"#", "@", "a", "A", "."}

RECURSIVE Texts(_)
Texts(n) ==
    IF n = 0 THEN { << >> }
    ELSE LET P == Texts(n - 1) IN P \cup { p \o << c >> : p \in P, c \in TextChars }

TextInit ==
    /\ text \in {None} \cup { StrV(cs) : cs \in Texts(MaxTextLen) }
    /\ hashtags = << >>
    /\ mentions = << >>
    /\ extracted = FALSE

Extract ==
    /\ ~extracted
    /\ hashtags' = extract_hashtags(text)
    /\ mentions' = extract_mentions(text)
    /\ extracted' = TRUE
    /\ UNCHANGED << text, parseVars, rowVars, virVars, guiVars >>

(***************************************************************************)
(* SpecRow: media_to_row applied to one post object.  The object is the    *)
(* bare object or a complete reel, with up to MaxEdits attributes set or   *)
(* removed.                                                                *)
(***************************************************************************)
AttrNames ==
    { "caption_text", "taken_at", "code", "thumbnail_width", "width",
      "thumbnail_height", "height", "video_duration", "location", "id", "pk",
      "media_type", "product_type", "like_count", "comment_count", "view_count",
      "play_count", "is_paid_partnership", "commenting_disabled_for_viewer",
      "thumbnail_url", "video_url", "resources" }

SomeUrl     == StrV(<< "u" >>)
SomeCaption == StrV(<< "#", "b", " ", "@", "a", ".", "c", " ", "#", "a" >>)

AttrValues(name) ==
    CASE name = "caption_text" -> {None, StrV(<< >>), SomeCaption}
      [] name = "taken_at" -> {None, DateTime(1), IntV(1700000000)}
      [] name = "code" -> {None, StrV(<< >>), StrV(<< "C", "x" >>)}
      [] name \in {"thumbnail_width", "thumbnail_height"} -> {None, IntV(0), IntV(640)}
      [] name \in {"width", "height"} -> {None, IntV(1080)}
      [] name = "video_duration" -> {None, IntV(15)}
      [] name = "location" -> {None, Obj(1), Obj(2), Obj(3)}
      [] name = "id" -> {None, StrV(<< "1", "_", "2" >>)}
      [] name = "pk" -> {None, IntV(1)}
      [] name = "media_type" -> {None, IntV(2)}
      [] name = "product_type" -> {None, StrV(<< "c", "l", "i", "p", "s" >>)}
      [] name \in {"like_count", "comment_count"} -> {None, IntV(5)}
      [] name = "view_count" -> {None, IntV(0), IntV(7)}
      [] name = "play_count" -> {None, IntV(0), IntV(9)}
      [] name \in {"is_paid_partnership", "commenting_disabled_for_viewer"} ->
             {None, BoolV(FALSE), BoolV(TRUE)}
      [] name \in {"thumbnail_url", "video_url"} -> {None, SomeUrl}
      [] name = "resources" -> {None, ListV(0), ListV(1), ListV(3), TupleV(2)}

\* A reel as the client library returns it: every attribute is there.
FullPost ==
    [ caption_text |-> SomeCaption, taken_at |-> DateTime(2), code |-> StrV(<< "C", "x" >>),
      thumbnail_width |-> None, width |-> IntV(1080),
      thumbnail_height |-> None, height |-> IntV(1080),
      video_duration |-> IntV(15), location |-> None,
      id |-> StrV(<< "1", "_", "2" >>), pk |-> IntV(1),
      media_type |-> IntV(2), product_type |-> StrV(<< "c", "l", "i", "p", "s" >>),
      like_count |-> IntV(5), comment_count |-> IntV(5),
      view_count |-> IntV(0), play_count |-> IntV(9),
      is_paid_partnership |-> BoolV(FALSE), commenting_disabled_for_viewer |-> BoolV(FALSE),
      thumbnail_url |-> SomeUrl, video_url |-> SomeUrl, resources |-> ListV(0) ]

RowInit ==
    /\ media \in {NoAttrs, FullPost}
    /\ row = NoAttrs
    /\ edits = 0
    /\ normalized = FALSE

SetAttr ==
    /\ ~normalized
    /\ edits < MaxEdits
    /\ \E name \in AttrNames : \E v \in AttrValues(name) :
           media' = (name :> v) @@ media
    /\ edits' = edits + 1
    /\ UNCHANGED << row, normalized, parseVars, textVars, virVars, guiVars >>

DelAttr ==
    /\ ~normalized
    /\ edits < MaxEdits
    /\ \E name \in DOMAIN media :
           media' = [a \in DOMAIN media \ {name} |-> media[a]]
    /\ edits' = edits + 1
    /\ UNCHANGED << row, normalized, parseVars, textVars, virVars, guiVars >>

\* rows = [media_to_row(m) for m in medias], for one m
Normalize ==
    /\ ~normalized
    /\ row' = media_to_row(media)
    /\ normalized' = TRUE
    /\ UNCHANGED << media, edits, parseVars, textVars, virVars, guiVars >>

(***************************************************************************)
(* SpecVir: compute_virality and the ranking applied to one table.         *)
(***************************************************************************)
CounterCols == {"view_count", "like_count", "comment_count"}

\* The counters of one input row.
RowChoices ==
    { [view_count |-> v, like_count |-> lc[1], comment_count |-> lc[2]] :
        v \in {None, IntV(20), IntV(50)},
        lc \in { << IntV(10), IntV(5) >>,
                 << IntV(15), IntV(5) >>,
                 << StrV(<< "x" >>), IntV(5) >>,
                 << StrV(<< "1", "5" >>), None >> } }

RowSeqs == UNION { [1..n -> RowChoices] : n \in 0..MaxRows }

\* pd.DataFrame(rows): the rows get the index labels 0, 1, ...
DataFrame(q) ==
    [ cols |-> IF q = << >> THEN {} ELSE CounterCols,
      rows |-> [k \in 1..Len(q) |-> ("index" :> k - 1) @@ q[k]] ]

FollowerCounts == {None, IntV(-1), IntV(0), IntV(100)}

VirInit ==
    /\ df \in { DataFrame(q) : q \in RowSeqs }
    /\ followers \in FollowerCounts
    /\ df_metrics = EmptyTable
    /\ df_sorted = EmptyTable
    /\ stage = "input"

\* df = compute_virality(df, followers)
Compute ==
    /\ stage = "input"
    /\ df_metrics' = compute_virality(df, followers)
    /\ stage' = "metrics"
    /\ UNCHANGED << df, followers, df_sorted, parseVars, textVars, rowVars, guiVars >>

\* df_sorted = df.sort_values(...)
Rank ==
    /\ stage = "metrics"
    /\ df_sorted' = ranked_view(df_metrics)
    /\ stage' = "ranked"
    /\ UNCHANGED << df, followers, df_metrics, parseVars, textVars, rowVars, guiVars >>

GuiIdle == run_btn = "normal" /\ pc = << >> /\ mode = << >> /\ trace = << >> /\ written = << >>

(***************************************************************************)
(* SpecGui: the Run button and the worker threads of IGParserGUI.  value   *)
(* is the text of the profile field; pc[w] is where thread w stands,       *)
(* trace[w] the log lines it has added, written[w] the files it has        *)
(* written, mode[w] the login branch its credentials select.               *)
(***************************************************************************)
Workers == 1..MaxWorkers

UserInputs == { << >>, << " " >>, << " ", "@", "a" >> }

\* The branch of lines 212-232 the thread's credentials select.
auth_mode(sessionid, login, password) ==
    IF sessionid THEN "sessionid"
    ELSE IF login /\ password THEN "password"
    ELSE "anonymous"

\* Where a failed login leaves the thread: it goes on to the profile lookup.
after_login_error_no_return == "lookup"

\* Where a failed login leaves the thread: return, so the finally clause.
after_login_error == "finally"

Active(w) == pc[w] \notin {"idle", "done"}
Tags(w) == { trace[w][k] : k \in 1..Len(trace[w]) }

GuiInit ==
    /\ value \in UserInputs
    /\ target_username = << >>
    /\ parsed = FALSE
    /\ run_btn = "normal"
    /\ pc = [w \in Workers |-> "idle"]
    /\ mode = [w \in Workers |-> "none"]
    /\ trace = [w \in Workers |-> << >>]
    /\ written = [w \in Workers |-> << >>]

guiRest == << value, target_username, parsed, textVars, rowVars, virVars >>

\* run_parser with an empty profile field: the error box, no thread.
RunParserEmpty ==
    /\ run_btn = "normal"
    /\ strip(value) = << >>
    /\ UNCHANGED << guiVars, guiRest >>

\* run_parser: a click on the enabled Run button starts a thread.
RunParser ==
    /\ run_btn = "normal"
    /\ strip(value) # << >>
    /\ \E w \in Workers :
        /\ pc[w] = "idle"
        /\ \A u \in Workers : u < w => pc[u] # "idle"
        /\ \E sessionid \in BOOLEAN, login \in BOOLEAN, password \in BOOLEAN :
               mode' = [mode EXCEPT ![w] = auth_mode(sessionid, login, password)]
        /\ pc' = [pc EXCEPT ![w] = "start"]
    /\ UNCHANGED << run_btn, trace, written, guiRest >>

\* Lines 202-210: the button is disabled, two log lines, the client is made.
Begin ==
    \E w \in Workers :
        /\ pc[w] = "start"
        /\ run_btn' = "disabled"
        /\ trace' = [trace EXCEPT ![w] = @ \o << "start", "profile" >>]
        /\ pc' = [pc EXCEPT ![w] = "login"]
        /\ UNCHANGED << mode, written, guiRest >>

\* Lines 212-232, the login succeeds (or there are no credentials).
LoginOk ==
    \E w \in Workers :
        /\ pc[w] = "login"
        /\ trace' = [trace EXCEPT ![w] =
               @ \o << CASE mode[w] = "sessionid" -> "login_sid_ok"
                         [] mode[w] = "password" -> "login_ok"
                         [] OTHER -> "anon_warn" >>]
        /\ pc' = [pc EXCEPT ![w] = "lookup"]
        /\ UNCHANGED << run_btn, mode, written, guiRest >>

\* Lines 219-222 and 227-230: the login raises.
LoginFail ==
    \E w \in Workers :
        /\ pc[w] = "login"
        /\ mode[w] \in {"sessionid", "password"}
        /\ trace' = [trace EXCEPT ![w] =
               @ \o << IF mode[w] = "sessionid" THEN "login_sid_err" ELSE "login_err" >>]
        /\ pc' = [pc EXCEPT ![w] = after_login_error]
        /\ UNCHANGED << run_btn, mode, written, guiRest >>

\* Lines 234-238 and 244-245: the profile lookup succeeds.
LookupOk ==
    \E w \in Workers :
        /\ pc[w] = "lookup"
        /\ trace' = [trace EXCEPT ![w] = @ \o << "followers", "loading" >>]
        /\ pc' = [pc EXCEPT ![w] = "fetch"]
        /\ UNCHANGED << run_btn, mode, written, guiRest >>

\* Lines 239-242: the profile lookup raises.
LookupFail ==
    \E w \in Workers :
        /\ pc[w] = "lookup"
        /\ trace' = [trace EXCEPT ![w] = @ \o << "lookup_err" >>]
        /\ pc' = [pc EXCEPT ![w] = "finally"]
        /\ UNCHANGED << run_btn, mode, written, guiRest >>

\* Lines 246-247: the retrieval of the posts succeeds.
FetchOk ==
    \E w \in Workers :
        /\ pc[w] = "fetch"
        /\ pc' = [pc EXCEPT ![w] = "table"]
        /\ UNCHANGED << run_btn, mode, trace, written, guiRest >>

\* Lines 253-262: the rows, the table, its metrics, the output directory.
BuildTable ==
    \E w \in Workers :
        /\ pc[w] = "table"
        /\ trace' = [trace EXCEPT ![w] = @ \o << "count" >>]
        /\ pc' = [pc EXCEPT ![w] = "csv"]
        /\ UNCHANGED << run_btn, mode, written, guiRest >>

\* Lines 248-251: the retrieval of the posts raises.
FetchFail ==
    \E w \in Workers :
        /\ pc[w] = "fetch"
        /\ trace' = [trace EXCEPT ![w] = @ \o << "fetch_err" >>]
        /\ pc' = [pc EXCEPT ![w] = "finally"]
        /\ UNCHANGED << run_btn, mode, written, guiRest >>

\* Line 264: df.to_csv(csv_path)
WriteCsv ==
    \E w \in Workers :
        /\ pc[w] = "csv"
        /\ written' = [written EXCEPT ![w] = @ \o << "csv" >>]
        /\ pc' = [pc EXCEPT ![w] = "xlsx"]
        /\ UNCHANGED << run_btn, mode, trace, guiRest >>

\* Lines 266-283: the ranked view and the two sheets of the spreadsheet.
WriteXlsx ==
    \E w \in Workers :
        /\ pc[w] = "xlsx"
        /\ written' = [written EXCEPT ![w] = @ \o << "xlsx" >>]
        /\ pc' = [pc EXCEPT ![w] = "vir"]
        /\ UNCHANGED << run_btn, mode, trace, guiRest >>

\* Lines 285-290: the virality CSV, the three log lines, the message box.
WriteVir ==
    \E w \in Workers :
        /\ pc[w] = "vir"
        /\ written' = [written EXCEPT ![w] = @ \o << "virality_csv" >>]
        /\ trace' = [trace EXCEPT ![w] = @ \o << "saved" >>]
        /\ pc' = [pc EXCEPT ![w] = "finally"]
        /\ UNCHANGED << run_btn, mode, guiRest >>

\* Lines 291-293: a step after the retrieval raises (a post that cannot be
\* normalised, a directory or a file that cannot be written).
Unexpected ==
    \E w \in Workers :
        /\ pc[w] \in {"table", "csv", "xlsx", "vir"}
        /\ trace' = [trace EXCEPT ![w] = @ \o << "unexpected" >>]
        /\ pc' = [pc EXCEPT ![w] = "finally"]
        /\ UNCHANGED << run_btn, mode, written, guiRest >>

\* Lines 294-295: finally, the button is enabled again.
Finally ==
    \E w \in Workers :
        /\ pc[w] = "finally"
        /\ run_btn' = "normal"
        /\ pc' = [pc EXCEPT ![w] = "done"]
        /\ UNCHANGED << mode, trace, written, guiRest >>

InitGui == GuiInit /\ TextIdle /\ RowIdle /\ VirIdle
NextGui ==
    \/ RunParserEmpty \/ RunParser \/ Begin \/ LoginOk \/ LoginFail
    \/ LookupOk \/ LookupFail \/ FetchOk \/ FetchFail \/ BuildTable
    \/ WriteCsv \/ WriteXlsx \/ WriteVir \/ Unexpected \/ Finally
SpecGui == InitGui /\ [][NextGui]_vars

InitParse == ParseInit /\ TextIdle /\ RowIdle /\ VirIdle /\ GuiIdle
NextParse == Parse
SpecParse == InitParse /\ [][NextParse]_vars

InitText == TextInit /\ ParseIdle /\ RowIdle /\ VirIdle /\ GuiIdle
NextText == Extract
SpecText == InitText /\ [][NextText]_vars

InitRow == RowInit /\ ParseIdle /\ TextIdle /\ VirIdle /\ GuiIdle
NextRow == SetAttr \/ DelAttr \/ Normalize
SpecRow == InitRow /\ [][NextRow]_vars

InitVir == VirInit /\ ParseIdle /\ TextIdle /\ RowIdle /\ GuiIdle
NextVir == Compute \/ Rank
SpecVir == InitVir /\ [][NextVir]_vars

(***************************************************************************)
(* Properties of parse_username (checked under SpecParse).                 *)
(***************************************************************************)
\* The input without its surrounding whitespace, stated on positions: from
\* the first to the last character that is no whitespace.
FirstInk(v) ==
    CHOOSE a \in 1..Len(v) + 1 :
        /\ \A k \in 1..a - 1 : v[k] \in Whitespace
        /\ a <= Len(v) => v[a] \notin Whitespace
LastInk(v) ==
    CHOOSE b \in 0..Len(v) :
        /\ \A k \in b + 1..Len(v) : v[k] \in Whitespace
        /\ b >= 1 => v[b] \notin Whitespace
Stripped(v) == SubSeq(v, FirstInk(v), LastInk(v))

UrlPrefixes ==
    { sch \o www \o HostLit :
        sch \in { << >>, HttpLit \o SchemeSep, HttpLit \o << "s" >> \o SchemeSep },
        www \in { << >>, WwwLit } }

\* h is the handle segment of the profile URL at the start of s: what
\* follows the URL prefix, as far as handle characters go, and not empty.
IsHandleOf(s, h) ==
    \E pre \in UrlPrefixes :
        /\ StartsWith(s, pre \o h)
        /\ h # << >>
        /\ \A k \in 1..Len(h) : h[k] \in HandleChars
        /\ Len(s) > Len(pre) + Len(h) => s[Len(pre) + Len(h) + 1] \notin HandleChars

\* s starts with a profile URL: a URL prefix and at least one handle character.
MatchesUrl(s) ==
    \E pre \in UrlPrefixes :
        /\ StartsWith(s, pre)
        /\ Len(s) > Len(pre)
        /\ s[Len(pre) + 1] \in HandleChars

\* C5, as stated: a profile URL gives its handle segment; any other input
\* gives the stripped input with a single leading "@" removed.
C5_SingleAtRemoved ==
    parsed =>
        IF MatchesUrl(Stripped(value))
        THEN IsHandleOf(Stripped(value), target_username)
        ELSE target_username =
                 IF StartsWith(Stripped(value), << "@" >>)
                 THEN Drop(Stripped(value), 1)
                 ELSE Stripped(value)

\* C5, amended: a profile URL gives its handle segment; any other input
\* gives the stripped input with every leading "@" removed.
C5_AllLeadingAtRemoved ==
    parsed =>
        IF MatchesUrl(Stripped(value))
        THEN IsHandleOf(Stripped(value), target_username)
        ELSE \E n \in 0..Len(Stripped(value)) :
                 /\ \A k \in 1..n : Stripped(value)[k] = "@"
                 /\ target_username = Drop(Stripped(value), n)
                 /\ ~StartsWith(target_username, << "@" >>)

\* An input with two leading "@" has been parsed.
C5_Witness ==
    /\ parsed
    /\ value = << " ", "@", "@", "a" >>
    /\ target_username = << "a" >>

(***************************************************************************)
(* Properties of the entity extractors (checked under SpecText).           *)
(***************************************************************************)
\* The tokens of cs: what follows a marker, as far as characters of the
\* class go, and not empty.
Tokens(marker, cls, cs) ==
    { SubSeq(cs, p[1] + 1, p[2]) :
        p \in { q \in (1..Len(cs)) \X (1..Len(cs)) :
                  /\ cs[q[1]] = marker
                  /\ q[1] < q[2]
                  /\ \A k \in q[1] + 1..q[2] : cs[k] \in cls
                  /\ q[2] = Len(cs) \/ cs[q[2] + 1] \notin cls } }

\* a comes before b in code point order.
CodePointLess(a, b) ==
    \E n \in 0..Len(b) - 1 :
        /\ n <= Len(a)
        /\ SubSeq(a, 1, n) = SubSeq(b, 1, n)
        /\ n = Len(a) \/ Ord(a[n + 1]) < Ord(b[n + 1])

StrictlyAscending(q) ==
    \A a \in 1..Len(q) : \A b \in 1..Len(q) : a < b => CodePointLess(q[a], q[b])

\* C7: no text gives no tokens; any other text gives its distinct tokens,
\* once each, in strictly ascending code point order, case variants apart.
C7_TokensSortedDistinct ==
    extracted =>
        /\ (text = None \/ text.s = << >>) => hashtags = << >> /\ mentions = << >>
        /\ text # None =>
            /\ SeqToSet(hashtags) = Tokens("#", WordChars, text.s)
            /\ SeqToSet(mentions) = Tokens("@", HandleChars, text.s)
            /\ StrictlyAscending(hashtags)
            /\ StrictlyAscending(mentions)

\* A caption with a repeated hashtag and its upper-case variant, in
\* descending order, has been processed.
C7_Witness ==
    /\ extracted
    /\ text = StrV(<< "#", "a", "#", "A", "#", "a" >>)
    /\ hashtags = << << "A" >>, << "a" >> >>

(***************************************************************************)
(* Properties of media_to_row (checked under SpecRow).                     *)
(***************************************************************************)
RowKeys ==
    { "id", "pk", "shortcode", "url", "taken_at", "media_type", "product_type",
      "like_count", "comment_count", "view_count", "play_count", "caption",
      "hashtags", "mentions", "duration_sec", "width", "height", "location",
      "is_paid_partnership", "is_comments_disabled", "thumbnail_url", "video_url",
      "carousel_count" }

\* C4: whatever attributes the post exposes, the row has exactly the 23
\* keys; a post exposing only id and pk gives null everywhere else, except
\* the empty strings of hashtags and mentions.
C4_RowRectangular ==
    normalized =>
        /\ DOMAIN row = RowKeys
        /\ Cardinality(DOMAIN row) = 23
        /\ DOMAIN media = {"id", "pk"} =>
            /\ row["id"] = media["id"]
            /\ row["pk"] = media["pk"]
            /\ row["hashtags"] = StrV(<< >>)
            /\ row["mentions"] = StrV(<< >>)
            /\ \A k \in RowKeys \ {"id", "pk", "hashtags", "mentions"} : row[k] = None

\* A post exposing only id and pk, both set, has been normalised.
C4_Witness ==
    /\ normalized
    /\ DOMAIN media = {"id", "pk"}
    /\ media["id"] # None
    /\ media["pk"] # None

\* The value of attribute name as the post exposes it: absent counts as null.
Exposed(name) == IF name \in DOMAIN media THEN media[name] ELSE None

\* C6, as stated: view_count is the direct view counter whenever that is
\* not null, and play_count otherwise; play_count is passed through.
C6_ViewCountUnlessNull ==
    normalized =>
        /\ row["play_count"] = Exposed("play_count")
        /\ row["view_count"] =
               IF Exposed("view_count") # None
               THEN Exposed("view_count")
               ELSE Exposed("play_count")

\* C6, amended: view_count is the direct view counter whenever that is
\* neither null nor zero, and play_count otherwise; play_count is passed
\* through.
C6_ViewCountUnlessNullOrZero ==
    normalized =>
        /\ row["play_count"] = Exposed("play_count")
        /\ row["view_count"] =
               IF Exposed("view_count") # None /\ Exposed("view_count") # IntV(0)
               THEN Exposed("view_count")
               ELSE Exposed("play_count")

\* A post with a view counter of zero and a play counter has been normalised.
C6_Witness ==
    /\ normalized
    /\ Exposed("view_count") = IntV(0)
    /\ Exposed("play_count") = IntV(9)
    /\ row["view_count"] = IntV(9)

\* C8, as stated: carousel_count is the length of resources whenever
\* resources is a list, of any length, and null otherwise.
C8_CarouselCountAnyList ==
    normalized =>
        row["carousel_count"] =
            IF Exposed("resources").t = "list"
            THEN IntV(Exposed("resources").i)
            ELSE None

\* C8, amended: carousel_count is the length of resources whenever
\* resources is a list that is not empty, and null otherwise.
C8_CarouselCountNonEmptyList ==
    normalized =>
        row["carousel_count"] =
            IF Exposed("resources").t = "list" /\ Exposed("resources").i > 0
            THEN IntV(Exposed("resources").i)
            ELSE None

\* A post whose resources are an empty list has been normalised.
C8_Witness ==
    /\ normalized
    /\ Exposed("resources") = ListV(0)
    /\ row["carousel_count"] = None

(***************************************************************************)
(* Properties of compute_virality and of the ranking (under SpecVir).      *)
(***************************************************************************)
RatioCols ==
    { "views_per_follower", "likes_per_follower", "comments_per_follower",
      "er_per_follower" }

\* Row k of the metrics table is row k of the input with columns added.
SameRowsInOrder ==
    /\ Len(df_metrics.rows) = Len(df.rows)
    /\ \A k \in 1..Len(df.rows) :
           \A c \in DOMAIN df.rows[k] : df_metrics.rows[k][c] = df.rows[k][c]

\* C1: a follower count that is null, zero or negative gives the input's
\* rows in the input's order, the follower snapshot and the four ratios
\* not-a-number in every row.
C1_NoFollowersAllNaN ==
    (stage \in {"metrics", "ranked"} /\ (followers = None \/ followers.i <= 0)) =>
        /\ SameRowsInOrder
        /\ MetricCols \subseteq df_metrics.cols
        /\ \A k \in 1..Len(df_metrics.rows) :
               \A c \in RatioCols \cup {"followers_at_scrape"} :
                   /\ c \in DOMAIN df_metrics.rows[k]
                   /\ df_metrics.rows[k][c] = NaN

\* The metrics of a table of MaxRows rows have been computed for a negative
\* follower count.
C1_Witness ==
    /\ stage = "metrics"
    /\ followers = IntV(-1)
    /\ Len(df.rows) >= 3
    /\ Len(df_metrics.rows) = Len(df.rows)

\* The counter c is a number as it stands.
IsCount(c) == c.t = "int"
\* The counter c is null or a text that is no number.
FailsCoercion(c) == c = None \/ (c.t = "str" /\ \E k \in 1..Len(c.s) : c.s[k] \notin Digits)
\* The ratio x is the number n divided by the follower count f.
IsRatio(x, n, f) == x.t = "float" /\ x.den # 0 /\ x.num * f = n * x.den

\* C2: a follower count F > 0 gives every row followers_at_scrape = F and
\* each ratio its counter divided by F, er_per_follower the sum of likes
\* and comments divided by F; a counter that fails coercion makes the
\* ratios of its own row that depend on it not-a-number and no other; the
\* row count is the input's.
C2_RatiosPerRow ==
    (stage \in {"metrics", "ranked"} /\ followers # None /\ followers.i > 0) =>
        /\ SameRowsInOrder
        /\ \A k \in 1..Len(df.rows) :
            LET inp == df.rows[k]
                out == df_metrics.rows[k]
                F   == followers.i
            IN  /\ out["followers_at_scrape"] = IntV(F)
                /\ IsCount(inp["view_count"]) =>
                       IsRatio(out["views_per_follower"], inp["view_count"].i, F)
                /\ IsCount(inp["like_count"]) =>
                       IsRatio(out["likes_per_follower"], inp["like_count"].i, F)
                /\ IsCount(inp["comment_count"]) =>
                       IsRatio(out["comments_per_follower"], inp["comment_count"].i, F)
                /\ (IsCount(inp["like_count"]) /\ IsCount(inp["comment_count"])) =>
                       IsRatio(out["er_per_follower"],
                               inp["like_count"].i + inp["comment_count"].i, F)
                /\ (out["views_per_follower"] = NaN) <=> FailsCoercion(inp["view_count"])
                /\ (out["likes_per_follower"] = NaN) <=> FailsCoercion(inp["like_count"])
                /\ (out["comments_per_follower"] = NaN) <=> FailsCoercion(inp["comment_count"])
                /\ (out["er_per_follower"] = NaN) <=>
                       (FailsCoercion(inp["like_count"]) \/ FailsCoercion(inp["comment_count"]))

\* With 100 followers, a row of 10 likes and 5 comments follows a row whose
\* like counter is no number: 0.10, 0.05 and 0.15 in the second row,
\* not-a-number for the likes and the engagement of the first only.
C2_Witness ==
    /\ stage = "metrics"
    /\ followers = IntV(100)
    /\ Len(df.rows) = 2
    /\ df.rows[1]["like_count"] = StrV(<< "x" >>)
    /\ df.rows[2]["like_count"] = IntV(10)
    /\ df.rows[2]["comment_count"] = IntV(5)
    /\ df_metrics.rows[1]["likes_per_follower"] = NaN
    /\ df_metrics.rows[1]["er_per_follower"] = NaN
    /\ df_metrics.rows[1]["comments_per_follower"] # NaN
    /\ FloatEq(df_metrics.rows[2]["likes_per_follower"], FloatV(10, 100))
    /\ FloatEq(df_metrics.rows[2]["comments_per_follower"], FloatV(5, 100))
    /\ FloatEq(df_metrics.rows[2]["er_per_follower"], FloatV(15, 100))

\* x ranks above y in a descending column: not-a-number ranks below every number.
RanksAbove(x, y) == x # NaN /\ (y = NaN \/ FloatLess(y, x))
\* x and y tie in a column.
Ties(x, y) == (x = NaN /\ y = NaN) \/ FloatEq(x, y)

\* C3: the ranked view holds exactly the rows of the metrics table, by
\* views_per_follower descending, ties by er_per_follower descending, ties
\* on both in fetch order; the metrics table keeps its fetch order.
C3_RankedView ==
    stage = "ranked" =>
        /\ Len(df_sorted.rows) = Len(df_metrics.rows)
        /\ SeqToSet(df_sorted.rows) = SeqToSet(df_metrics.rows)
        /\ df_sorted.cols = df_metrics.cols
        /\ \A k \in 1..Len(df_metrics.rows) : df_metrics.rows[k]["index"] = k - 1
        /\ \A a \in 1..Len(df_sorted.rows) : \A b \in 1..Len(df_sorted.rows) :
            a < b =>
                LET x == df_sorted.rows[a]
                    y == df_sorted.rows[b]
                IN  /\ ~RanksAbove(y["views_per_follower"], x["views_per_follower"])
                    /\ Ties(x["views_per_follower"], y["views_per_follower"]) =>
                           ~RanksAbove(y["er_per_follower"], x["er_per_follower"])
                    /\ ( /\ Ties(x["views_per_follower"], y["views_per_follower"])
                         /\ Ties(x["er_per_follower"], y["er_per_follower"]) ) =>
                           x["index"] < y["index"]

\* Rows with views 0.2, 0.5, 0.5 and engagement 0.15, 0.2, 0.15 have been
\* ranked: the second, the third, the first.
C3_Witness ==
    /\ stage = "ranked"
    /\ followers = IntV(100)
    /\ Len(df.rows) = 3
    /\ df.rows[1]["view_count"] = IntV(20)
    /\ df.rows[2]["view_count"] = IntV(50)
    /\ df.rows[3]["view_count"] = IntV(50)
    /\ df.rows[1]["like_count"] = IntV(10)
    /\ df.rows[2]["like_count"] = IntV(15)
    /\ df.rows[3]["like_count"] = IntV(10)
    /\ \A k \in 1..3 : df.rows[k]["comment_count"] = IntV(5)
    /\ [k \in 1..3 |-> df_sorted.rows[k]["index"]] = << 1, 2, 0 >>

(***************************************************************************)
(* Properties of the Run button and the worker threads (under SpecGui).    *)
(***************************************************************************)
\* C9: at most one worker thread is active at a time.
C9_AtMostOneWorker == Cardinality({ w \in Workers : Active(w) }) <= 1

LoginErrors == {"login_sid_err", "login_err"}
AfterLogin  == {"followers", "lookup_err", "loading", "fetch_err", "count", "saved"}
AfterLookup == {"fetch_err", "count", "saved"}
AfterFetch  == {"count", "saved"}

\* What holds of worker w in every state.
C10_Worker(w) ==
    /\ (Tags(w) \cap LoginErrors # {}) =>
           /\ Tags(w) \cap AfterLogin = {}
           /\ written[w] = << >>
           /\ pc[w] \in {"finally", "done"}
    /\ "lookup_err" \in Tags(w) =>
           /\ Tags(w) \cap AfterLookup = {}
           /\ written[w] = << >>
           /\ pc[w] \in {"finally", "done"}
    /\ "fetch_err" \in Tags(w) =>
           /\ Tags(w) \cap AfterFetch = {}
           /\ written[w] = << >>
           /\ pc[w] \in {"finally", "done"}
    /\ written[w] \in { << >>, << "csv" >>, << "csv", "xlsx" >>,
                        << "csv", "xlsx", "virality_csv" >> }
    /\ written[w] # << >> =>
           /\ Tags(w) \cap {"login_sid_ok", "login_ok", "anon_warn"} # {}
           /\ {"followers", "loading", "count"} \subseteq Tags(w)
           /\ Tags(w) \cap (LoginErrors \cup {"lookup_err", "fetch_err"}) = {}

\* C10: a run that fails at login, at the profile lookup or at the
\* retrieval of the posts takes no later step and writes no file; files
\* are written after these steps succeeded, main CSV, spreadsheet, virality
\* CSV in this order; and the step that ends a run leaves the Run button
\* enabled.
C10_FailureStopsRun ==
    /\ [](\A w \in Workers : C10_Worker(w))
    /\ [][\A w \in Workers : (pc[w] # "done" /\ pc'[w] = "done") => run_btn' = "normal"]_vars

\* One run has ended after a failed retrieval, another has written its
\* three files.
C10_Witness ==
    \E u \in Workers : \E w \in Workers :
        /\ pc[u] = "done"
        /\ "fetch_err" \in Tags(u)
        /\ written[w] = << "csv", "xlsx", "virality_csv" >>
        /\ pc[w] = "done"

====
